---- MODULE Spec2Model ----
(***************************************************************************)
(* Model of app.py: a Streamlit script that loads (or trains) a yield      *)
(* regression pipeline once per process, answers prediction requests and   *)
(* ranks crops by historical mean yield (recomendar_culturas).             *)
(*                                                                         *)
(* Two specifications are given.  Spec is the serving process: storage,    *)
(* the st.cache_resource cache of load_model, concurrent script runs and   *)
(* process restarts.  SpecCore applies the two pure computations           *)
(* (model.predict and recomendar_culturas) to every dataset and request    *)
(* of the bounded domains below.                                           *)
(*                                                                         *)
(* st.cache_resource is modelled as Streamlit implements it: a lookup; on   *)
(* a miss the per-entry compute lock is taken, the lookup repeated, the    *)
(* function run and its return value stored; an exception stores nothing.  *)
(*                                                                         *)
(* Abstractions: a mean is kept as the exact pair (sum, n); the numeric    *)
(* block of the ColumnTransformer (StandardScaler) and the value computed  *)
(* by the random forest are not modelled, only whether predict returns.    *)
(***************************************************************************)
EXTENDS Integers, Sequences, FiniteSets, TLC

VARIABLES
    storage,       \* model storage: file name -> absent | corrupt | a model
    df_full,       \* the cached dataset (rows of the CSV)
    columns,       \* the columns the CSV has
    cache,         \* st.cache_resource entry of load_model
    lock,          \* holder of the cache's compute lock, 0 when free
    pc,            \* position of each session's script run
    model,         \* module-level `model` of each session's script run
    resp,          \* what the last finished computation reported
    hist,          \* outcome of the steps of the latest load_model execution
    loadAttempts,  \* joblib.load calls in this process
    trainRuns,     \* treinar_modelo_do_zero calls in this process
    failed,        \* a submitted request has failed in this process
    savedEarlier   \* an earlier process trained and saved its model

vars == <<storage, df_full, columns, cache, lock, pc, model, resp, hist,
          loadAttempts, trainRuns, failed, savedEarlier>>

(***************************************************************************)
(* Bounds.                                                                 *)
(***************************************************************************)
MaxRows == 2
NumSessions == 2
MaxAttempts == 2

Sessions == 1..NumSessions

(***************************************************************************)
(* Domains of the dataset and of the form.                                 *)
(***************************************************************************)
DataMunicipios == {"Chapeco", "Xanxere"}
DataCulturas == {"Milho", "Soja"}
DataAnos == {2014, 2019, 2020}
DataRendimentos == {3200, 6400}

\* st.number_input("Ano da safra", min_value, max_value)
AnoMin == 2005
AnoMax == 2100
FormAnos == {a \in {2010, 2019, 2020, 2025} : AnoMin <= a /\ a <= AnoMax}

\* st.text_input values (free text)
TextMunicipios == DataMunicipios \cup {"UnknownTown"}
TextCulturas == DataCulturas \cup {"Trigo"}

Rows == [municipio : DataMunicipios, cultura : DataCulturas,
         ano : DataAnos, rendimento_kg_ha : DataRendimentos]

Datasets == UNION {[1..n -> Rows] : n \in 0..MaxRows}

\* lexicographic order of the strings used as categories
Lexico == <<"Chapeco", "Milho", "Soja", "Trigo", "UnknownTown", "Xanxere">>

Range(s) == {s[i] : i \in DOMAIN s}

SortedSeq(S) ==
    LET In(x) == x \in S IN SelectSeq(Lexico, In)

(***************************************************************************)
(* treinar_modelo_do_zero                                                  *)
(***************************************************************************)
target == "rendimento_kg_ha"
numeric_features == <<"ano", "area_plantada_ha", "precipitacao_mm", "temp_media_c">>
categorical_features == <<"municipio", "cultura">>

AllColumns == Range(numeric_features) \cup Range(categorical_features) \cup {target}

NoModel == [kind |-> "none"]

\* faulty variant: absent columns are filled in instead of raising (reindex)
SelectColumnsFilled(cols, wanted) == [ok |-> TRUE, named |-> {}]

\* df[list of columns] / df[column]: KeyError naming the requested columns
\* the frame does not have
SelectColumns(cols, wanted) ==
    [ok |-> wanted \subseteq cols, named |-> wanted \ cols]

\* faulty variant: the encoder default, which raises on an unknown category
HandleUnknownError == "error"

\* OneHotEncoder(handle_unknown="ignore")
HandleUnknown == "ignore"

\* Pipeline.fit: the encoder learns the sorted categories of each column
Fit(df) ==
    [kind |-> "pipeline",
     named_steps |-> TRUE,
     handle_unknown |-> HandleUnknown,
     municipios |-> SortedSeq({df[i].municipio : i \in DOMAIN df}),
     culturas |-> SortedSeq({df[i].cultura : i \in DOMAIN df})]

\* faulty variant: joblib.dump outside a try block
SaveErrorRaised == FALSE

\* try: joblib.dump(...) except Exception: pass
SaveErrorSwallowed == TRUE

\* writable: whether joblib.dump can write the file.  saved tells whether the
\* file was written.
treinar_modelo_do_zero(df, cols, writable) ==
    LET X == SelectColumns(cols, Range(numeric_features) \cup Range(categorical_features))
        y == SelectColumns(cols, {target})
        raised(e, n) == [ok |-> FALSE, error |-> e, named |-> n, model |-> NoModel, saved |-> FALSE]
    IN  IF ~X.ok THEN raised("KeyError", X.named)
        ELSE IF ~y.ok THEN raised("KeyError", y.named)
        ELSE IF Len(df) = 0 THEN raised("ValueError", {})
        ELSE IF ~writable /\ ~SaveErrorSwallowed THEN raised("OSError", {})
        ELSE [ok |-> TRUE, error |-> "none", named |-> {}, model |-> Fit(df), saved |-> writable]

(***************************************************************************)
(* model.predict(input_data): the categorical block of the transform       *)
(***************************************************************************)
Zeros(n) == [i \in 1..n |-> 0]

OneHot(categories, v, handle_unknown) ==
    IF v \in Range(categories)
    THEN [ok |-> TRUE, vec |-> [i \in 1..Len(categories) |-> IF categories[i] = v THEN 1 ELSE 0]]
    ELSE IF handle_unknown = "ignore"
    THEN [ok |-> TRUE, vec |-> Zeros(Len(categories))]
    ELSE [ok |-> FALSE, vec |-> <<>>]

Transform(m, municipio, cultura) ==
    LET a == OneHot(m.municipios, municipio, m.handle_unknown)
        b == OneHot(m.culturas, cultura, m.handle_unknown)
    IN  [ok |-> a.ok /\ b.ok, municipio |-> a.vec, cultura |-> b.vec]

predict(m, municipio, cultura) ==
    LET t == Transform(m, municipio, cultura)
    IN  IF t.ok
        THEN [ok |-> TRUE, error |-> "none", X |-> <<t.municipio, t.cultura>>]
        ELSE [ok |-> FALSE, error |-> "ValueError", X |-> <<>>]

(***************************************************************************)
(* recomendar_culturas                                                     *)
(***************************************************************************)
MinAno(df) == CHOOSE a \in {df[i].ano : i \in DOMAIN df} : \A j \in DOMAIN df : a <= df[j].ano

\* janela_inicio = ano - 5, raised to df["ano"].min() (NaN on an empty frame:
\* the comparison is then false)
janela_inicio(ano, df) ==
    IF Len(df) > 0 /\ ano - 5 < MinAno(df) THEN MinAno(df) ELSE ano - 5

\* faulty variant: the mask without the municipality test
MatchesWindowOnly(r, municipio, ano, df) ==
    janela_inicio(ano, df) <= r.ano /\ r.ano <= ano

\* Series.between is inclusive on both sides
Matches(r, municipio, ano, df) ==
    r.municipio = municipio /\ janela_inicio(ano, df) <= r.ano /\ r.ano <= ano

filtro(municipio, ano, df) ==
    LET Keep(r) == Matches(r, municipio, ano, df) IN SelectSeq(df, Keep)

\* faulty variant: an empty filter is kept
NoFallback(f, df) == f

\* if filtro.empty: filtro = df.copy()
Fallback(f, df) == IF Len(f) = 0 THEN df ELSE f

RECURSIVE SumRendimento(_)
SumRendimento(rows) ==
    IF rows = <<>> THEN 0 ELSE Head(rows).rendimento_kg_ha + SumRendimento(Tail(rows))

\* groupby("cultura")["rendimento_kg_ha"].mean(): one entry per crop of the
\* rows, the mean kept as sum / n
GroupMean(rows) ==
    {LET Of(r) == r.cultura = c
         mine == SelectSeq(rows, Of)
     IN  [cultura |-> c, sum |-> SumRendimento(mine), n |-> Len(mine)]
     : c \in {rows[i].cultura : i \in DOMAIN rows}}

\* mean of a >= mean of b
MeanGeq(a, b) == a.sum * b.n >= b.sum * a.n

\* faulty variant: sort_values with its default, ascending order
Ascending(s) == \A i \in 1..(Len(s) - 1) : MeanGeq(s[i + 1], s[i])

\* sort_values(ascending=False)
Descending(s) == \A i \in 1..(Len(s) - 1) : MeanGeq(s[i], s[i + 1])

\* the orders the sort may return: equal means may come in any order
SortValues(G) ==
    {s \in [1..Cardinality(G) -> G] : Range(s) = G /\ Descending(s)}

recomendar_culturas(municipio, ano, df) ==
    SortValues(GroupMean(Fallback(filtro(municipio, ano, df), df)))

NoResp ==
    [stage |-> "none", municipio |-> "", cultura |-> "", ano |-> 0,
     pred |-> FALSE, X |-> <<>>, error |-> "none", named |-> {},
     reported |-> "none", ranking |-> <<>>]

(***************************************************************************)
(* SpecCore: predict and recomendar_culturas applied to every dataset of   *)
(* at most MaxRows rows and every request of the form's domains.           *)
(***************************************************************************)
InitCore ==
    /\ df_full \in Datasets
    /\ columns = AllColumns
    /\ storage = [f \in {"modelo_pam_multiculturas.pkl"} |-> [kind |-> "absent"]]
    /\ cache = treinar_modelo_do_zero(df_full, columns, TRUE).model
    /\ lock = 0
    /\ pc = [s \in Sessions |-> "idle"]
    /\ model = [s \in Sessions |-> NoModel]
    /\ resp = NoResp
    /\ hist = [load |-> "none", train |-> "none", save |-> "none"]
    /\ loadAttempts = 0
    /\ trainRuns = 0
    /\ failed = FALSE
    /\ savedEarlier = FALSE

CorePredict(municipio, cultura, ano) ==
    /\ resp.stage = "none"
    /\ cache # NoModel
    /\ LET p == predict(cache, municipio, cultura)
       IN  resp' = [NoResp EXCEPT !.stage = "predict", !.municipio = municipio,
                                  !.cultura = cultura, !.ano = ano, !.pred = p.ok,
                                  !.X = p.X, !.error = p.error]
    /\ UNCHANGED <<storage, df_full, columns, cache, lock, pc, model, hist,
                   loadAttempts, trainRuns, failed, savedEarlier>>

CoreRank(municipio, ano) ==
    /\ resp.stage = "none"
    /\ \E r \in recomendar_culturas(municipio, ano, df_full) :
          resp' = [NoResp EXCEPT !.stage = "rank", !.municipio = municipio,
                                 !.ano = ano, !.ranking = r]
    /\ UNCHANGED <<storage, df_full, columns, cache, lock, pc, model, hist,
                   loadAttempts, trainRuns, failed, savedEarlier>>

NextCore ==
    \/ \E m \in TextMunicipios, c \in TextCulturas, a \in FormAnos : CorePredict(m, c, a)
    \/ \E m \in TextMunicipios, a \in FormAnos : CoreRank(m, a)

SpecCore == InitCore /\ [][NextCore]_vars

(***************************************************************************)
(* Spec: the serving process.                                              *)
(***************************************************************************)
\* what a file of the model storage may hold besides a pickled pipeline
Absent == [kind |-> "absent"]
Corrupt == [kind |-> "corrupt"]

\* joblib.load("modelo_pam_multiculturas.pkl")
LoadPath == "modelo_pam_multiculturas.pkl"

\* joblib.dump(model, "modelo_pam_multiculturas_streamlit.pkl", compress=3)
DumpPath == "modelo_pam_multiculturas_streamlit.pkl"

Files == {LoadPath, DumpPath}

\* joblib.load raises on a missing or unreadable file
joblib_load(content) ==
    IF content \in {Absent, Corrupt}
    THEN [ok |-> FALSE, obj |-> NoModel]
    ELSE [ok |-> TRUE, obj |-> content]

\* joblib.dump replaces the file when it can write it; the exception of a
\* failed write is swallowed
joblib_dump(st, m, writable) ==
    IF writable THEN [st EXCEPT ![DumpPath] = m] ELSE st

\* faulty variant: load_model without the decorator keeps nothing
NotCached(old, value) == old

\* @st.cache_resource: the value the function returned is kept for the process
CacheWrite(old, value) == value

\* The datasets a process is started on: none, the two-crop example, and a
\* one-row dataset of another municipality
ChapecoExample ==
    <<[municipio |-> "Chapeco", cultura |-> "Soja", ano |-> 2020, rendimento_kg_ha |-> 3200],
      [municipio |-> "Chapeco", cultura |-> "Milho", ano |-> 2020, rendimento_kg_ha |-> 6400]>>

XanxereOnly ==
    <<[municipio |-> "Xanxere", cultura |-> "Soja", ano |-> 2019, rendimento_kg_ha |-> 6400]>>

ServeDatasets == {<<>>, ChapecoExample, XanxereOnly}

ServeColumns ==
    {AllColumns \ miss : miss \in {{}, {"municipio", "cultura"}, {target}, {"ano", target}}}

\* Pipelines an earlier training may have left in the load path: one of the
\* structure the script introspects, and ones with other step names (their
\* categories cannot be read), with either policy for unknown categories
PersistedModels ==
    {Fit(XanxereOnly),
     [Fit(XanxereOnly) EXCEPT !.named_steps = FALSE],
     [Fit(XanxereOnly) EXCEPT !.named_steps = FALSE, !.handle_unknown = "error"]}

Init ==
    /\ df_full \in ServeDatasets
    /\ columns \in ServeColumns
    /\ storage \in {[f \in Files |-> IF f = LoadPath THEN c ELSE Absent] :
                        c \in {Absent, Corrupt} \cup PersistedModels}
    /\ cache = NoModel
    /\ lock = 0
    /\ pc = [s \in Sessions |-> "idle"]
    /\ model = [s \in Sessions |-> NoModel]
    /\ resp = NoResp
    /\ hist = [load |-> "none", train |-> "none", save |-> "none"]
    /\ loadAttempts = 0
    /\ trainRuns = 0
    /\ failed = FALSE
    /\ savedEarlier = FALSE

\* A script run starts; df_full = load_data() returns the cached dataset and
\* the run reaches model = load_model()
Rerun(s) ==
    /\ pc[s] = "idle"
    /\ loadAttempts < MaxAttempts
    /\ pc' = [pc EXCEPT ![s] = "load_model"]
    /\ UNCHANGED <<storage, df_full, columns, cache, lock, model, resp, hist,
                   loadAttempts, trainRuns, failed, savedEarlier>>

\* the cached function is called: a hit returns the cached object
CacheLookup(s) ==
    /\ pc[s] = "load_model"
    /\ IF cache # NoModel
       THEN /\ model' = [model EXCEPT ![s] = cache]
            /\ pc' = [pc EXCEPT ![s] = "form"]
       ELSE /\ pc' = [pc EXCEPT ![s] = "lock"]
            /\ UNCHANGED model
    /\ UNCHANGED <<storage, df_full, columns, cache, lock, resp, hist,
                   loadAttempts, trainRuns, failed, savedEarlier>>

\* a miss takes the compute lock and looks again before computing
AcquireLock(s) ==
    /\ pc[s] = "lock"
    /\ lock = 0
    /\ IF cache # NoModel
       THEN /\ model' = [model EXCEPT ![s] = cache]
            /\ pc' = [pc EXCEPT ![s] = "form"]
            /\ UNCHANGED lock
       ELSE /\ lock' = s
            /\ pc' = [pc EXCEPT ![s] = "try_load"]
            /\ UNCHANGED model
    /\ UNCHANGED <<storage, df_full, columns, cache, resp, hist,
                   loadAttempts, trainRuns, failed, savedEarlier>>

\* load_model: try: return joblib.load(...)
TryLoad(s) ==
    /\ pc[s] = "try_load"
    /\ loadAttempts' = loadAttempts + 1
    /\ LET r == joblib_load(storage[LoadPath])
       IN  IF r.ok
           THEN /\ cache' = CacheWrite(cache, r.obj)
                /\ model' = [model EXCEPT ![s] = r.obj]
                /\ lock' = 0
                /\ pc' = [pc EXCEPT ![s] = "form"]
                /\ hist' = [load |-> "ok", train |-> "none", save |-> "none"]
           ELSE /\ pc' = [pc EXCEPT ![s] = "train"]
                /\ hist' = [load |-> "failed", train |-> "none", save |-> "none"]
                /\ UNCHANGED <<cache, model, lock>>
    /\ UNCHANGED <<storage, df_full, columns, resp, trainRuns, failed, savedEarlier>>

\* load_model: except Exception: return treinar_modelo_do_zero()
Train(s) ==
    /\ pc[s] = "train"
    /\ trainRuns' = trainRuns + 1
    /\ lock' = 0
    /\ \E writable \in BOOLEAN :
          LET r == treinar_modelo_do_zero(df_full, columns, writable)
          IN  IF r.ok
              THEN /\ storage' = joblib_dump(storage, r.model, r.saved)
                   /\ hist' = [hist EXCEPT !.train = "ok",
                                           !.save = IF r.saved THEN "ok" ELSE "failed"]
                   /\ cache' = CacheWrite(cache, r.model)
                   /\ model' = [model EXCEPT ![s] = r.model]
                   /\ pc' = [pc EXCEPT ![s] = "form"]
                   /\ UNCHANGED resp
              ELSE \* the exception leaves load_model and ends the script run
                   /\ hist' = [hist EXCEPT !.train = "raised"]
                   /\ resp' = [NoResp EXCEPT !.stage = "load_model",
                                             !.error = r.error, !.named = r.named,
                                             !.reported = "uncaught"]
                   /\ pc' = [pc EXCEPT ![s] = "idle"]
                   /\ UNCHANGED <<storage, cache, model>>
    /\ UNCHANGED <<df_full, columns, loadAttempts, failed, savedEarlier>>

\* categories_ of the "cat" transformer, or None when they cannot be read
Categorias(m, col) ==
    IF m.named_steps THEN (IF col = "municipio" THEN m.municipios ELSE m.culturas)
    ELSE <<>>

\* st.selectbox over the categories when there are any, else st.text_input
WidgetValues(m, col) ==
    IF Len(Categorias(m, col)) > 0 THEN Range(Categorias(m, col))
    ELSE IF col = "municipio" THEN TextMunicipios ELSE TextCulturas

\* the columns recomendar_culturas reads, in the order it reads them
RankingColumns == <<"ano", "municipio", "cultura", "rendimento_kg_ha">>

FirstMissing(cols) ==
    LET absent == {i \in DOMAIN RankingColumns : RankingColumns[i] \notin cols}
    IN  IF absent = {} THEN {}
        ELSE {RankingColumns[CHOOSE i \in absent : \A j \in absent : i <= j]}

\* faulty variant: except ValueError
CatchesValueErrorOnly(error) == error = "ValueError"

\* except Exception as e
Catches(error) == TRUE

Reported(error) == IF Catches(error) THEN "st.error" ELSE "uncaught"

Head3(r) == SubSeq(r, 1, IF Len(r) < 3 THEN Len(r) ELSE 3)

\* the body of `if st.button(...)`, ranking being the order the sort returned
PredictionBlock(m, df, cols, municipio, cultura, ano, ranking) ==
    LET p == predict(m, municipio, cultura)
        req == [NoResp EXCEPT !.stage = "predict", !.municipio = municipio,
                              !.cultura = cultura, !.ano = ano]
    IN  IF ~p.ok
        THEN [req EXCEPT !.error = p.error, !.reported = Reported(p.error)]
        ELSE IF FirstMissing(cols) # {}
        THEN [req EXCEPT !.pred = TRUE, !.X = p.X, !.error = "KeyError",
                         !.named = FirstMissing(cols), !.reported = Reported("KeyError")]
        ELSE [req EXCEPT !.pred = TRUE, !.X = p.X, !.ranking = Head3(ranking)]

\* faulty variant: the filter assigned back to the shared frame
FilteredInPlace(df, municipio, ano) == filtro(municipio, ano, df)

\* the dataset after a request: filtering and df.copy() build new frames
DfAfterRequest(df, municipio, ano) == df

\* the button was pressed: predict, then recommend
Submit(s, municipio, cultura, ano) ==
    /\ pc[s] = "form"
    /\ municipio \in WidgetValues(model[s], "municipio")
    /\ cultura \in WidgetValues(model[s], "cultura")
    /\ \E ranking \in recomendar_culturas(municipio, ano, df_full) :
          resp' = PredictionBlock(model[s], df_full, columns, municipio, cultura, ano, ranking)
    /\ failed' = (failed \/ resp'.error # "none")
    /\ df_full' = DfAfterRequest(df_full, municipio, ano)
    /\ pc' = [pc EXCEPT ![s] = "idle"]
    /\ UNCHANGED <<storage, columns, cache, lock, model, hist,
                   loadAttempts, trainRuns, savedEarlier>>

\* a script run that was not started by the button ends after the form
Render(s) ==
    /\ pc[s] = "form"
    /\ pc' = [pc EXCEPT ![s] = "idle"]
    /\ UNCHANGED <<storage, df_full, columns, cache, lock, model, resp, hist,
                   loadAttempts, trainRuns, failed, savedEarlier>>

\* the process ends and a new one starts on the same files
Restart ==
    /\ savedEarlier' = (savedEarlier \/ hist.save = "ok")
    /\ cache' = NoModel
    /\ lock' = 0
    /\ pc' = [s \in Sessions |-> "idle"]
    /\ model' = [s \in Sessions |-> NoModel]
    /\ resp' = NoResp
    /\ hist' = [load |-> "none", train |-> "none", save |-> "none"]
    /\ loadAttempts' = 0
    /\ trainRuns' = 0
    /\ failed' = FALSE
    /\ UNCHANGED <<storage, df_full, columns>>

Next ==
    \/ \E s \in Sessions : Rerun(s)
    \/ \E s \in Sessions : CacheLookup(s)
    \/ \E s \in Sessions : AcquireLock(s)
    \/ \E s \in Sessions : TryLoad(s)
    \/ \E s \in Sessions : Train(s)
    \/ \E s \in Sessions, m \in TextMunicipios, c \in TextCulturas, a \in FormAnos :
          Submit(s, m, c, a)
    \/ \E s \in Sessions : Render(s)
    \/ Restart

Spec == Init /\ [][Next]_vars

(***************************************************************************)
(* Properties of Spec.  They are stated in their own terms (the required   *)
(* columns, index sets over df_full) rather than through the operators of  *)
(* the model.                                                              *)
(***************************************************************************)
InBody(s) == pc[s] \in {"try_load", "train"}

\* C1, as stated: in one process the persisted-model load is attempted at
\* most once and treinar_modelo_do_zero is run at most once.
C1_AtMostOnce == loadAttempts <= 1 /\ trainRuns <= 1

\* C1, amended: at most one caller executes the body of load_model at a time;
\* once an execution has returned a model it is cached, no caller attempts the
\* load or runs the training again in that process, and every caller that gets
\* past load_model holds the cached model.  (When training raises nothing is
\* cached and the next caller repeats the load attempt and the training.)
C1_OnceCached ==
    /\ [](/\ \A s, t \in Sessions : InBody(s) /\ InBody(t) => s = t
          /\ \A s \in Sessions : InBody(s) => lock = s /\ cache = NoModel
          /\ \A s \in Sessions : pc[s] = "form" => cache # NoModel /\ model[s] = cache
          /\ cache # NoModel => (hist.load = "ok" /\ loadAttempts = 1 /\ trainRuns = 0)
                                \/ (hist.train = "ok" /\ trainRuns >= 1))
    /\ [][cache # NoModel /\ ~Restart =>
            cache' = cache /\ loadAttempts' = loadAttempts /\ trainRuns' = trainRuns]_vars

C1_Witness ==
    /\ \A s \in Sessions : pc[s] = "form" /\ model[s] = cache
    /\ loadAttempts = 1
    /\ trainRuns = 1

ClaimTrainable == AllColumns \subseteq columns /\ Len(df_full) > 0

\* C2, as stated: whenever the load failed and the fallback ran, a model was
\* trained and returned and no error was surfaced.
C2_AlwaysFallsBack ==
    (hist.load = "failed" /\ hist.train # "none") =>
        (hist.train = "ok" /\ cache # NoModel /\ resp.stage # "load_model")

\* C2, amended: whenever the load failed and the dataset has every required
\* column and at least one row, load_model trains a model from the dataset and
\* returns it with no error surfaced, whether or not the save succeeded;
\* training is started only after a load attempt failed, never after the load
\* succeeded.
C2_Fallback ==
    /\ \A s \in Sessions : pc[s] = "train" =>
          hist.load = "failed" /\ storage[LoadPath] \in {Absent, Corrupt}
    /\ hist.train # "none" => hist.load = "failed"
    /\ hist.load = "ok" => trainRuns = 0
    /\ (hist.load = "failed" /\ hist.train # "none" /\ ClaimTrainable) =>
          /\ hist.train = "ok"
          /\ hist.save \in {"ok", "failed"}
          /\ cache = Fit(df_full)
          /\ resp.stage # "load_model"

C2_Witness ==
    /\ hist.load = "failed"
    /\ hist.train = "ok"
    /\ hist.save = "failed"
    /\ cache = Fit(df_full)
    /\ \E s \in Sessions : pc[s] = "form" /\ model[s] = cache

ClaimMissing == AllColumns \ columns

ClaimFeatures == {"ano", "area_plantada_ha", "precipitacao_mm", "temp_media_c",
                  "municipio", "cultura"}

\* C8, as stated: a training run on a dataset that lacks required columns
\* fails with an error naming the missing columns, and no model is produced or
\* persisted.
C8_NamesMissing ==
    (hist.train # "none" /\ ClaimMissing # {}) =>
        /\ hist.train = "raised"
        /\ resp.stage = "load_model"
        /\ resp.named = ClaimMissing
        /\ cache = NoModel
        /\ storage[DumpPath] = Absent

\* C8, amended: a training run on a dataset that lacks required columns fails
\* with a KeyError naming every missing feature column or, when no feature
\* column is missing, the missing target column; no model is produced, cached
\* or persisted.
C8_Schema ==
    (hist.train # "none" /\ ClaimMissing # {}) =>
        /\ hist.train = "raised"
        /\ resp.stage = "load_model"
        /\ resp.error = "KeyError"
        /\ resp.named = (IF ClaimMissing \cap ClaimFeatures # {}
                         THEN ClaimMissing \cap ClaimFeatures
                         ELSE {"rendimento_kg_ha"})
        /\ cache = NoModel
        /\ \A s \in Sessions : model[s] = NoModel
        /\ storage[DumpPath] = Absent

C8_Witness ==
    /\ hist.train = "raised"
    /\ ClaimMissing = {"ano", "rendimento_kg_ha"}
    /\ resp.stage = "load_model"
    /\ resp.named = {"ano"}

\* C10: in a process started after one that ran the fallback training and
\* saved its model, the load succeeds and nothing is retrained.
C10_ReloadsSaved ==
    (savedEarlier /\ hist.load # "none") => (hist.load = "ok" /\ trainRuns = 0)

\* C9: after initialization the dataset and the fitted model are read-only:
\* no step changes df_full or its columns, a cached model is only ever dropped
\* by the end of the process, and a request (answered, failed or on the global
\* fallback path) leaves the cached model as it was.
C9_ReadOnly ==
    [][/\ df_full' = df_full
       /\ columns' = columns
       /\ (cache # NoModel /\ ~Restart => cache' = cache)
       /\ \A s \in Sessions :
             (pc[s] = "form" /\ pc'[s] = "idle" /\ ~Restart) =>
                 cache' = cache /\ model' = model]_vars

C9_Witness ==
    /\ failed
    /\ resp.stage = "predict"
    /\ resp.error = "none"
    /\ df_full # <<>>
    /\ \A i \in DOMAIN df_full : df_full[i].municipio # resp.municipio
    /\ resp.ranking # <<>>
    /\ cache # NoModel

ClaimRequestValid(m, municipio, cultura) ==
    /\ \/ m.handle_unknown = "ignore"
       \/ (\E i \in DOMAIN m.municipios : m.municipios[i] = municipio)
          /\ (\E i \in DOMAIN m.culturas : m.culturas[i] = cultura)
    /\ {"ano", "municipio", "cultura", "rendimento_kg_ha"} \subseteq columns

\* C7: a failure raised while a submitted request is predicted or ranked is
\* reported by the handler as an error of that request; the step leaves the
\* cached model, the dataset, the storage and the other sessions untouched and
\* the session back at idle; and whatever failed before, a request is answered
\* without error exactly when it is valid for the cached model and dataset.
C7_RequestScoped ==
    /\ [](/\ (resp.stage = "predict" /\ resp.error # "none") => resp.reported = "st.error"
          /\ failed => cache # NoModel
          /\ resp.stage = "predict" =>
                ((resp.error = "none" /\ resp.pred)
                    <=> ClaimRequestValid(cache, resp.municipio, resp.cultura)))
    /\ [][\A s \in Sessions :
            (pc[s] = "form" /\ pc'[s] = "idle" /\ resp'.error # "none" /\ resp' # resp) =>
                /\ cache' = cache /\ df_full' = df_full /\ storage' = storage
                /\ lock' = lock /\ model' = model
                /\ \A t \in Sessions \ {s} : pc'[t] = pc[t]]_vars

C7_Witness ==
    /\ failed
    /\ resp.stage = "predict"
    /\ resp.error = "none"
    /\ resp.pred

(***************************************************************************)
(* Properties of SpecCore.                                                 *)
(***************************************************************************)
ClaimVocab(col) ==
    IF col = "municipio" THEN {df_full[i].municipio : i \in DOMAIN df_full}
    ELSE {df_full[i].cultura : i \in DOMAIN df_full}

\* the indicator block of value v against the learned categories cats: all
\* zero when v is not in the vocabulary, else a single 1 at v's category
ClaimBlockOk(block, cats, v, vocab) ==
    /\ Len(block) = Len(cats)
    /\ Range(cats) = vocab
    /\ \A i \in DOMAIN block :
          block[i] = (IF v \in vocab /\ cats[i] = v THEN 1 ELSE 0)
    /\ v \notin vocab => \A i \in DOMAIN block : block[i] = 0

ClaimMinYear == CHOOSE a \in {df_full[i].ano : i \in DOMAIN df_full} :
                    \A i \in DOMAIN df_full : a <= df_full[i].ano

\* first year of the window: max(dataset_min_year, Y - 5)
ClaimLo(Y) == IF ClaimMinYear > Y - 5 THEN ClaimMinYear ELSE Y - 5

\* indices of the rows of municipality M with year in [ClaimLo(Y), Y]
ClaimWindowRows(M, Y) ==
    {i \in DOMAIN df_full :
        df_full[i].municipio = M /\ ClaimLo(Y) <= df_full[i].ano /\ df_full[i].ano <= Y}

RECURSIVE ClaimSum(_)
ClaimSum(I) ==
    IF I = {} THEN 0
    ELSE LET i == CHOOSE k \in I : TRUE IN df_full[i].rendimento_kg_ha + ClaimSum(I \ {i})

\* the per-crop means over the rows with indices in I
ClaimMeans(I) ==
    {[cultura |-> c,
      sum |-> ClaimSum({i \in I : df_full[i].cultura = c}),
      n |-> Cardinality({i \in I : df_full[i].cultura = c})]
     : c \in {df_full[i].cultura : i \in I}}

\* C4: when no row matches both the municipality and the year window, the
\* ranking is the one over the entire dataset, and it is not empty unless the
\* dataset is.
C4_GlobalFallback ==
    (resp.stage = "rank" /\ ClaimWindowRows(resp.municipio, resp.ano) = {}) =>
        /\ Range(resp.ranking) = ClaimMeans(DOMAIN df_full)
        /\ Len(resp.ranking) = Cardinality({df_full[i].cultura : i \in DOMAIN df_full})
        /\ df_full # <<>> => resp.ranking # <<>>

C4_Witness ==
    /\ resp.stage = "rank"
    /\ resp.municipio = "UnknownTown"
    /\ Len(df_full) = 2
    /\ Len(resp.ranking) = 2

\* C5: when some row of the municipality lies in the window, the ranking is
\* computed from exactly the rows of that municipality with year in
\* [max(dataset_min_year, Y - 5), Y].
C5_Window ==
    (resp.stage = "rank" /\ ClaimWindowRows(resp.municipio, resp.ano) # {}) =>
        Range(resp.ranking) = ClaimMeans(ClaimWindowRows(resp.municipio, resp.ano))

C5_Witness ==
    /\ resp.stage = "rank"
    /\ Len(df_full) = 2
    /\ Cardinality(ClaimWindowRows(resp.municipio, resp.ano)) = 1
    /\ \E i \in DOMAIN df_full :
          /\ df_full[i].municipio = resp.municipio
          /\ df_full[i].ano = resp.ano - 6
    /\ Len(resp.ranking) = 1

ClaimSelected ==
    IF ClaimWindowRows(resp.municipio, resp.ano) = {} THEN DOMAIN df_full
    ELSE ClaimWindowRows(resp.municipio, resp.ano)

\* C6: the ranking has exactly one entry per crop of the selected rows, each
\* valued with the arithmetic mean of that crop's yields over the selected
\* rows, in order of non-increasing mean.
C6_Ranking ==
    resp.stage = "rank" =>
        /\ Len(resp.ranking) = Cardinality({df_full[i].cultura : i \in ClaimSelected})
        /\ \A i, j \in DOMAIN resp.ranking :
              i # j => resp.ranking[i].cultura # resp.ranking[j].cultura
        /\ \A i \in DOMAIN resp.ranking :
              LET mine == {k \in ClaimSelected : df_full[k].cultura = resp.ranking[i].cultura}
              IN  /\ mine # {}
                  /\ resp.ranking[i].n = Cardinality(mine)
                  /\ resp.ranking[i].sum = ClaimSum(mine)
        /\ \A i, j \in DOMAIN resp.ranking :
              i < j => resp.ranking[i].sum * resp.ranking[j].n
                          >= resp.ranking[j].sum * resp.ranking[i].n

C6_Witness ==
    /\ resp.stage = "rank"
    /\ df_full = ChapecoExample
    /\ resp.municipio = "Chapeco"
    /\ resp.ano = 2020
    /\ resp.ranking = <<[cultura |-> "Milho", sum |-> 6400, n |-> 1],
                        [cultura |-> "Soja", sum |-> 3200, n |-> 1]>>

====
